---- MODULE Spec2Model ----
(***************************************************************************)
(* bt-dualboot-rs: Bluetooth pairing keys read from a Windows registry     *)
(* export and merged into BlueZ "info" records.                            *)
(*                                                                         *)
(* Text is modelled as a sequence of one-character strings, a byte as a    *)
(* number in 0..255, a [u8; N] as a sequence of N bytes.  An Option<T> is  *)
(* <<>> (None) or <<x>> (Some(x)).  A call that can panic returns          *)
(* [ok |-> TRUE, val |-> v] or Panic.                                      *)
(***************************************************************************)
EXTENDS Integers, Sequences, FiniteSets, TLC

None == <<>>
Some(x) == <<x>>
IsSome(o) == Len(o) = 1
Unwrap(o) == o[1]

Panic == [ok |-> FALSE]
Ok(v) == [ok |-> TRUE, val |-> v]

(***************************************************************************)
(* Characters                                                              *)
(***************************************************************************)
DecDigits == <<"0", "1", "2", "3", "4", "5", "6", "7", "8", "9">>
LowerHex == DecDigits \o <<"a", "b", "c", "d", "e", "f">>
UpperHex == DecDigits \o <<"A", "B", "C", "D", "E", "F">>

Range(s) == {s[i] : i \in 1..Len(s)}

HexChars == Range(LowerHex) \cup Range(UpperHex)

\* char::is_ascii_hexdigit
is_ascii_hexdigit(c) == c \in HexChars

\* char::to_digit(16): the value of a hex digit of either case
HexDigitValue ==
    [c \in HexChars |-> (CHOOSE i \in 1..16 : LowerHex[i] = c \/ UpperHex[i] = c) - 1]

HexVal(c) == HexDigitValue[c]

\* char::to_uppercase on the ASCII range
UpperChar(c) == IF c \in HexChars THEN UpperHex[HexVal(c) + 1] ELSE c

\* str::to_uppercase
to_uppercase(s) == [i \in 1..Len(s) |-> UpperChar(s[i])]

\* &s[n..]: panics when n is past the end
SliceFrom(s, n) == SubSeq(s, n + 1, Len(s))

\* .chars().filter(|c| *c != ',').collect()
NotComma(c) == c # ","

StripCommas(s) == SelectSeq(s, NotComma)

\* str::split(','): the pieces between commas; an empty input gives one empty piece
RECURSIVE SplitAcc(_, _)
SplitAcc(s, cur) ==
    IF s = <<>> THEN <<cur>>
    ELSE IF Head(s) = "," THEN <<cur>> \o SplitAcc(Tail(s), <<>>)
    ELSE SplitAcc(Tail(s), Append(cur, Head(s)))

split(s) == SplitAcc(s, <<>>)

\* [..].join(sep)
RECURSIVE join(_, _)
join(parts, sep) ==
    IF parts = <<>> THEN <<>>
    ELSE IF Len(parts) = 1 THEN parts[1]
    ELSE parts[1] \o sep \o join(Tail(parts), sep)

\* Iterator::rev
rev(s) == [i \in 1..Len(s) |-> s[Len(s) + 1 - i]]

\* concatenation of a sequence of strings (collect::<String>())
RECURSIVE Concat(_)
Concat(parts) == IF parts = <<>> THEN <<>> ELSE Head(parts) \o Concat(Tail(parts))

\* format!("{:02x}", b)
format_02x(b) == <<LowerHex[(b \div 16) + 1], LowerHex[(b % 16) + 1]>>

\* a leading '+' is accepted by from_str_radix
StripPlus(s) == IF Len(s) > 1 /\ Head(s) = "+" THEN Tail(s) ELSE s

RECURSIVE HexNum(_, _)
HexNum(s, acc) == IF s = <<>> THEN acc ELSE HexNum(Tail(s), acc * 16 + HexVal(Head(s)))

RECURSIVE DropZeros(_)
DropZeros(s) == IF s # <<>> /\ Head(s) = "0" THEN DropZeros(Tail(s)) ELSE s

\* u8::from_str_radix(s, 16): Err on empty input, a non-digit, or a value over 255
u8_from_str_radix_16(s) ==
    LET d == StripPlus(s) IN
    IF d = <<>> \/ \E i \in 1..Len(d) : ~is_ascii_hexdigit(d[i]) THEN Panic
    ELSE IF Len(DropZeros(d)) > 2 THEN Panic
    ELSE Ok(HexNum(DropZeros(d), 0))

(***************************************************************************)
(* win_device.rs: the string-based encoders (LinuxDataFormat)              *)
(***************************************************************************)
\* Ltk / Irk / Csrk ::get_linux_format: drop "hex:", uppercase, drop the commas
KeyLinuxFormat(raw) ==
    IF Len(raw) < 4 THEN Panic
    ELSE Ok(StripCommas(to_uppercase(SliceFrom(raw, 4))))

\* mutant: the key text is not uppercased
Ltk_get_linux_format_lower(raw) ==
    IF Len(raw) < 4 THEN Panic ELSE Ok(StripCommas(SliceFrom(raw, 4)))

Ltk_get_linux_format(raw) == KeyLinuxFormat(raw)

Irk_get_linux_format(raw) == KeyLinuxFormat(raw)

Csrk_get_linux_format(raw) == KeyLinuxFormat(raw)

\* One step of a base conversion on a little-endian list of digits of `base`:
\* d * m + c
RECURSIVE MulAddLE(_, _, _, _)
MulAddLE(d, m, c, base) ==
    IF d = <<>>
    THEN IF c = 0 THEN <<>> ELSE <<c % base>> \o MulAddLE(<<>>, m, c \div base, base)
    ELSE LET v == Head(d) * m + c
         IN <<v % base>> \o MulAddLE(Tail(d), m, v \div base, base)

RECURSIVE HexToDecLE(_, _)
HexToDecLE(h, acc) ==
    IF h = <<>> THEN acc
    ELSE HexToDecLE(Tail(h), MulAddLE(acc, 16, HexVal(Head(h)), 10))

\* u64::to_string of the value of a string of hex digits
u64_to_string(h) ==
    LET le == HexToDecLE(h, <<>>) IN
    IF le = <<>> THEN <<"0">> ELSE [i \in 1..Len(le) |-> DecDigits[le[Len(le) + 1 - i] + 1]]

\* u64::from_str_radix(s, 16): Err on empty input, a non-digit, or more than 64 bits
u64_from_str_radix_16(s) ==
    LET d == StripPlus(s) IN
    IF d = <<>> \/ \E i \in 1..Len(d) : ~is_ascii_hexdigit(d[i]) THEN Panic
    ELSE IF Len(DropZeros(d)) > 16 THEN Panic
    ELSE Ok(DropZeros(d))

\* ERand::get_linux_format: drop "hex(b):" and the commas, read the digits as one
\* hexadecimal u64, print it in decimal
ERand_get_linux_format(raw) ==
    IF Len(raw) < 7 THEN Panic
    ELSE LET n == u64_from_str_radix_16(StripCommas(SliceFrom(raw, 7))) IN
         IF n.ok THEN Ok(u64_to_string(n.val)) ELSE Panic

\* EDiv::get_linux_format: the text after "dword:", as it stands
EDiv_get_linux_format(raw) ==
    IF Len(raw) < 6 THEN Panic ELSE Ok(SliceFrom(raw, 6))

\* Iterator::take(n)
take(s, n) == SubSeq(s, 1, IF Len(s) < n THEN Len(s) ELSE n)

\* Address::get_linux_format: drop "hex(b):", uppercase, first six pieces reversed
Address_get_linux_format(raw) ==
    IF Len(raw) < 7 THEN Panic
    ELSE Ok(join(rev(take(split(to_uppercase(SliceFrom(raw, 7))), 6)), <<":">>))

\* WinMac::get_linux_format: uppercase, the characters paired up, pairs joined by ':'
\* (an odd last character stays in duo_holder and is lost)
WinMac_get_linux_format(mac) ==
    LET u == to_uppercase(mac) IN
    Ok(join([i \in 1..(Len(u) \div 2) |-> <<u[2 * i - 1], u[2 * i]>>], <<":">>))

(***************************************************************************)
(* bt_device/win_bt_device.rs: the byte decoders (win_reged_helpers, From) *)
(***************************************************************************)
RECURSIVE ParseAll(_)
ParseAll(parts) ==
    IF parts = <<>> THEN Ok(<<>>)
    ELSE LET b == u8_from_str_radix_16(Head(parts))
             r == ParseAll(Tail(parts))
         IN IF b.ok /\ r.ok THEN Ok(<<b.val>> \o r.val) ELSE Panic

\* hex[n..].split(',') parsed byte by byte, then try_into a [u8; width]
HexList(hex, n, width) ==
    IF Len(hex) < n THEN Panic
    ELSE LET r == ParseAll(split(SliceFrom(hex, n))) IN
         IF r.ok /\ Len(r.val) = width THEN r ELSE Panic

KeyWidth == 16
RandWidth == 8
DwordWidth == 4
AddrWidth == 6

hex_to_bytes(hex) == HexList(hex, 4, KeyWidth)

hex_b_to_bytes(hex) == HexList(hex, 7, RandWidth)

\* mutant: the padding is dropped but the bytes are not reversed
Address_into_norev(raw) ==
    LET r == hex_b_to_bytes(raw) IN
    IF ~r.ok THEN Panic
    ELSE LET a == take(r.val, 6) IN IF Len(a) = AddrWidth THEN Ok(a) ELSE Panic

\* impl From<Address> for uni_bt_device::Address: reversed, the first two skipped
Address_into(raw) ==
    LET r == hex_b_to_bytes(raw) IN
    IF ~r.ok THEN Panic
    ELSE LET a == SliceFrom(rev(r.val), 2) IN IF Len(a) = AddrWidth THEN Ok(a) ELSE Panic

\* mutant: the bytes are reversed, as they are for a hex(b) address
KeyAddress_into_rev(key) ==
    LET r == ParseAll([i \in 1..(Len(key) \div 2) |-> <<key[2 * i - 1], key[2 * i]>>]) IN
    IF r.ok /\ Len(r.val) = AddrWidth THEN Ok(rev(r.val)) ELSE Panic

\* impl From<KeyAddress> for uni_bt_device::Address: chunks_exact(2), each a hex byte
KeyAddress_into(key) ==
    LET r == ParseAll([i \in 1..(Len(key) \div 2) |-> <<key[2 * i - 1], key[2 * i]>>]) IN
    IF r.ok /\ Len(r.val) = AddrWidth THEN r ELSE Panic

DecVal(c) == HexDigitValue[c]

\* the value of a string of decimal digits as little-endian bytes, no leading zeros
RECURSIVE DecToBytesLE(_, _)
DecToBytesLE(s, acc) ==
    IF s = <<>> THEN acc
    ELSE DecToBytesLE(Tail(s), MulAddLE(acc, 10, DecVal(Head(s)), 256))

\* u32::from_str_radix(s, 10): Err on empty input, a non-digit, or more than 32 bits;
\* the value is kept as its DwordWidth little-endian bytes
u32_from_str_radix_10(s) ==
    LET d == StripPlus(s) IN
    IF d = <<>> \/ \E i \in 1..Len(d) : d[i] \notin Range(DecDigits) THEN Panic
    ELSE LET b == DecToBytesLE(d, <<>>) IN
         IF Len(b) > DwordWidth THEN Panic
         ELSE Ok([i \in 1..DwordWidth |-> IF i <= Len(b) THEN b[i] ELSE 0])

\* win_reged_helpers::dword_to_bytes: the text after "dword:" read as a DECIMAL u32,
\* then to_ne_bytes: the byte order is the build target's
dword_to_bytes(dword, big_endian) ==
    IF Len(dword) < 6 THEN Panic
    ELSE LET n == u32_from_str_radix_10(SliceFrom(dword, 6)) IN
         IF ~n.ok THEN Panic
         ELSE Ok(IF big_endian THEN rev(n.val) ELSE n.val)

(***************************************************************************)
(* bt_device/linux_bt_device.rs: linux_bt_helpers                          *)
(***************************************************************************)
\* mutant: {:x} for {:02x}: a byte below 16 gives one digit
bytes_to_linux_hex_key_nopad(bytes) ==
    Concat([i \in 1..Len(bytes) |->
               to_uppercase(IF bytes[i] < 16 THEN <<LowerHex[bytes[i] + 1]>>
                            ELSE format_02x(bytes[i]))])

bytes_to_linux_hex_key(bytes) ==
    Concat([i \in 1..Len(bytes) |-> to_uppercase(format_02x(bytes[i]))])

bytes_to_linux_hex_address(bytes) ==
    join([i \in 1..Len(bytes) |-> to_uppercase(format_02x(bytes[i]))], <<":">>)

(***************************************************************************)
(* main.rs, get_win_devices: the Address value made up for a legacy device *)
(***************************************************************************)
\* k.as_bytes().chunks(2): the last chunk may be one character long
chunks2(k) ==
    [i \in 1..((Len(k) + 1) \div 2) |->
        SubSeq(k, 2 * i - 1, IF 2 * i <= Len(k) THEN 2 * i ELSE Len(k))]

\* format!("hex(b):{},00,00", <the bytes of k, each as {:02x}, reversed, joined by ','>)
LegacyAddress(k) ==
    LET r == ParseAll(chunks2(k)) IN
    IF ~r.ok THEN Panic
    ELSE Ok(<<"h", "e", "x", "(", "b", ")", ":">>
            \o join(rev([i \in 1..Len(r.val) |-> format_02x(r.val[i])]), <<",">>)
            \o <<",", "0", "0", ",", "0", "0">>)

\* utils.rs
is_valid_64_hex(input) ==
    Len(input) = 12 /\ \A i \in 1..Len(input) : is_ascii_hexdigit(input[i])

(***************************************************************************)
(* linux_device.rs: the sections of a BlueZ info record and their          *)
(* recreate methods (the string-based merger)                              *)
(***************************************************************************)
SectionNames ==
    {"General", "DeviceID", "ConnectionParameters", "LinkKey", "IdentityResolvingKey",
     "SlaveLongTermKey", "PeripheralLongTermKey", "LocalSignatureKey", "LongTermKey"}

LinkKey_recreate(self, ltk) ==
    LET k == Ltk_get_linux_format(ltk) IN
    IF ~k.ok THEN Panic
    ELSE Ok([Key |-> k.val, Type |-> self.Type, PINLength |-> self.PINLength])

\* mutant: the old key is cloned instead of the new one
IdentityResolvingKey_recreate_keep(self, irk) ==
    Ok([Key |-> self.Key])

IdentityResolvingKey_recreate(self, irk) ==
    LET k == Irk_get_linux_format(irk) IN
    IF ~k.ok THEN Panic ELSE Ok([Key |-> k.val])

\* mutant: the slip of LongTermKey::recreate, made here
SlaveLongTermKey_recreate_slip(self, ltk) ==
    LET k == Ltk_get_linux_format(ltk) IN
    IF ~k.ok THEN Panic
    ELSE Ok([Key |-> k.val, Authenticated |-> self.Authenticated,
             EncSize |-> self.Authenticated, EDiv |-> self.EDiv, Rand |-> self.Rand])

SlaveLongTermKey_recreate(self, ltk) ==
    LET k == Ltk_get_linux_format(ltk) IN
    IF ~k.ok THEN Panic
    ELSE Ok([Key |-> k.val, Authenticated |-> self.Authenticated,
             EncSize |-> self.EncSize, EDiv |-> self.EDiv, Rand |-> self.Rand])

PeripheralLongTermKey_recreate(self, ltk) ==
    LET k == Ltk_get_linux_format(ltk) IN
    IF ~k.ok THEN Panic
    ELSE Ok([Key |-> k.val, Authenticated |-> self.Authenticated,
             EncSize |-> self.EncSize, EDiv |-> self.EDiv, Rand |-> self.Rand])

LocalSignatureKey_recreate(self, csrk) ==
    LET k == Csrk_get_linux_format(csrk) IN
    IF ~k.ok THEN Panic ELSE Ok([Key |-> k.val])

\* mutant: Rand is cloned from the old section, as in SlaveLongTermKey::recreate
LongTermKey_recreate_old_rand(self, ltk, e_rand, e_div) ==
    LET k == Ltk_get_linux_format(ltk)
        d == EDiv_get_linux_format(e_div)
    IN IF ~(k.ok /\ d.ok) THEN Panic
       ELSE Ok([Key |-> k.val, Authenticated |-> self.Authenticated,
                EncSize |-> self.Authenticated, EDiv |-> d.val, Rand |-> self.Rand])

\* mutant: Authenticated and EncSize are each built from the other
LongTermKey_recreate_swap(self, ltk, e_rand, e_div) ==
    LET k == Ltk_get_linux_format(ltk)
        d == EDiv_get_linux_format(e_div)
        r == ERand_get_linux_format(e_rand)
    IN IF ~(k.ok /\ d.ok /\ r.ok) THEN Panic
       ELSE Ok([Key |-> k.val, Authenticated |-> self.EncSize,
                EncSize |-> self.Authenticated, EDiv |-> d.val, Rand |-> r.val])

\* enc_size is built from self.authenticated (linux_device.rs:215)
LongTermKey_recreate(self, ltk, e_rand, e_div) ==
    LET k == Ltk_get_linux_format(ltk)
        d == EDiv_get_linux_format(e_div)
        r == ERand_get_linux_format(e_rand)
    IN IF ~(k.ok /\ d.ok /\ r.ok) THEN Panic
       ELSE Ok([Key |-> k.val, Authenticated |-> self.Authenticated,
                EncSize |-> self.Authenticated, EDiv |-> d.val, Rand |-> r.val])

\* mutant: the section is taken out of the record and not put back
Replace_take(r, name, new) ==
    IF ~r.ok \/ ~new.ok THEN Panic ELSE Ok([r.val EXCEPT ![name] = None])

\* std::mem::replace(section, new): the record with one section replaced; a panic in
\* building the new section, or before, ends the merge
Replace(r, name, new) ==
    IF ~r.ok \/ ~new.ok THEN Panic ELSE Ok([r.val EXCEPT ![name] = Some(new.val)])

(***************************************************************************)
(* main.rs, update_linux_devices: the merge of one WinDevice into the      *)
(* LinuxInfo read from its info file (the body of the second map closure)  *)
(***************************************************************************)
\* main.rs 311-313: [LinkKey], when the info file has it
merge_link_key(r, win) ==
    IF r.ok /\ IsSome(r.val.LinkKey)
    THEN Replace(r, "LinkKey", LinkKey_recreate(Unwrap(r.val.LinkKey), win.ltk))
    ELSE r

\* main.rs 315-322: [IdentityResolvingKey], when the device carries an IRK
merge_identity_resolving_key(r, win) ==
    IF r.ok /\ IsSome(r.val.IdentityResolvingKey) /\ IsSome(win.irk)
    THEN Replace(r, "IdentityResolvingKey",
                 IdentityResolvingKey_recreate(Unwrap(r.val.IdentityResolvingKey),
                                               Unwrap(win.irk)))
    ELSE r

\* main.rs 324-330: [PeripheralLongTermKey]
merge_peripheral_long_term_key(r, win) ==
    IF r.ok /\ IsSome(r.val.PeripheralLongTermKey)
    THEN Replace(r, "PeripheralLongTermKey",
                 PeripheralLongTermKey_recreate(Unwrap(r.val.PeripheralLongTermKey),
                                                win.ltk))
    ELSE r

\* main.rs 332-337: [SlaveLongTermKey]
merge_slave_long_term_key(r, win) ==
    IF r.ok /\ IsSome(r.val.SlaveLongTermKey)
    THEN Replace(r, "SlaveLongTermKey",
                 SlaveLongTermKey_recreate(Unwrap(r.val.SlaveLongTermKey), win.ltk))
    ELSE r

\* main.rs 339-344: [LocalSignatureKey], when the device carries a CSRK
merge_local_signature_key(r, win) ==
    IF r.ok /\ IsSome(r.val.LocalSignatureKey) /\ IsSome(win.csrk)
    THEN Replace(r, "LocalSignatureKey",
                 LocalSignatureKey_recreate(Unwrap(r.val.LocalSignatureKey),
                                            Unwrap(win.csrk)))
    ELSE r

\* main.rs 346-355: [LongTermKey], when the device carries both ERand and EDIV
merge_long_term_key(r, win) ==
    IF r.ok /\ IsSome(r.val.LongTermKey) /\ IsSome(win.e_rand) /\ IsSome(win.e_div)
    THEN Replace(r, "LongTermKey",
                 LongTermKey_recreate(Unwrap(r.val.LongTermKey), win.ltk,
                                      Unwrap(win.e_rand), Unwrap(win.e_div)))
    ELSE r

\* the six steps in the order of the closure, each upon the record the last one left
merge_win_dev(linux_info, win) ==
    CHOOSE s6 \in
        {merge_long_term_key(s5, win) : s5 \in
        {merge_local_signature_key(s4, win) : s4 \in
        {merge_slave_long_term_key(s3, win) : s3 \in
        {merge_peripheral_long_term_key(s2, win) : s2 \in
        {merge_identity_resolving_key(s1, win) : s1 \in
        {merge_link_key(Ok(linux_info), win)}}}}}} : TRUE

(***************************************************************************)
(* bt_device/linux_bt_device.rs: BtDeviceBuilder (the byte-based merger)   *)
(***************************************************************************)
BtDeviceBuilder_new ==
    [device |-> None, ltk |-> None, e_rand |-> None, e_div |-> None,
     irk |-> None, csrk |-> None]

BtDeviceBuilder_device(self, device) == [self EXCEPT !.device = Some(device)]

BtDeviceBuilder_ltk(self, ltk) == [self EXCEPT !.ltk = Some(ltk)]

BtDeviceBuilder_e_rand(self, e_rand) == [self EXCEPT !.e_rand = Some(e_rand)]

BtDeviceBuilder_e_div(self, e_div) == [self EXCEPT !.e_div = Some(e_div)]

BtDeviceBuilder_irk(self, irk) == [self EXCEPT !.irk = Some(irk)]

BtDeviceBuilder_csrk(self, csrk) == [self EXCEPT !.csrk = Some(csrk)]

\* build 69-76: [LinkKey]
build_link_key(d, self) ==
    IF IsSome(d.LinkKey)
    THEN [d EXCEPT !.LinkKey =
             Some([Key |-> bytes_to_linux_hex_key(Unwrap(self.ltk)),
                   Type |-> Unwrap(d.LinkKey).Type,
                   PINLength |-> Unwrap(d.LinkKey).PINLength])]
    ELSE d

\* build 78-85: [IdentityResolvingKey]
build_identity_resolving_key(d, self) ==
    IF IsSome(d.IdentityResolvingKey) /\ IsSome(self.irk)
    THEN [d EXCEPT !.IdentityResolvingKey =
             Some([Key |-> bytes_to_linux_hex_key(Unwrap(self.irk))])]
    ELSE d

\* build 87-96: [PeripheralLongTermKey]
build_peripheral_long_term_key(d, self) ==
    IF IsSome(d.PeripheralLongTermKey)
    THEN [d EXCEPT !.PeripheralLongTermKey =
             Some([Key |-> bytes_to_linux_hex_key(Unwrap(self.ltk)),
                   Authenticated |-> Unwrap(d.PeripheralLongTermKey).Authenticated,
                   EncSize |-> Unwrap(d.PeripheralLongTermKey).EncSize,
                   EDiv |-> Unwrap(d.PeripheralLongTermKey).EDiv,
                   Rand |-> Unwrap(d.PeripheralLongTermKey).Rand])]
    ELSE d

\* build 98-107: [SlaveLongTermKey]
build_slave_long_term_key(d, self) ==
    IF IsSome(d.SlaveLongTermKey)
    THEN [d EXCEPT !.SlaveLongTermKey =
             Some([Key |-> bytes_to_linux_hex_key(Unwrap(self.ltk)),
                   Authenticated |-> Unwrap(d.SlaveLongTermKey).Authenticated,
                   EncSize |-> Unwrap(d.SlaveLongTermKey).EncSize,
                   EDiv |-> Unwrap(d.SlaveLongTermKey).EDiv,
                   Rand |-> Unwrap(d.SlaveLongTermKey).Rand])]
    ELSE d

\* build 109-116: [LocalSignatureKey]
build_local_signature_key(d, self) ==
    IF IsSome(d.LocalSignatureKey) /\ IsSome(self.csrk)
    THEN [d EXCEPT !.LocalSignatureKey =
             Some([Key |-> bytes_to_linux_hex_key(Unwrap(self.csrk))])]
    ELSE d

\* build 118-131: [LongTermKey]
build_long_term_key(d, self) ==
    IF IsSome(d.LongTermKey) /\ IsSome(self.e_rand) /\ IsSome(self.e_div)
    THEN [d EXCEPT !.LongTermKey =
             Some([Key |-> bytes_to_linux_hex_key(Unwrap(self.ltk)),
                   Authenticated |-> Unwrap(d.LongTermKey).Authenticated,
                   EncSize |-> Unwrap(d.LongTermKey).EncSize,
                   EDiv |-> bytes_to_linux_hex_key(Unwrap(self.e_div)),
                   Rand |-> bytes_to_linux_hex_key(Unwrap(self.e_rand))])]
    ELSE d

\* BtDeviceBuilder::build: Err without a device or an LTK, else the six steps in order
BtDeviceBuilder_build(self) ==
    IF ~IsSome(self.device) \/ ~IsSome(self.ltk) THEN Panic
    ELSE Ok(CHOOSE d6 \in
        {build_long_term_key(d5, self) : d5 \in
        {build_local_signature_key(d4, self) : d4 \in
        {build_slave_long_term_key(d3, self) : d3 \in
        {build_peripheral_long_term_key(d2, self) : d2 \in
        {build_identity_resolving_key(d1, self) : d1 \in
        {build_link_key(Unwrap(self.device), self)}}}}}} : TRUE)

(***************************************************************************)
(* The inputs of the model                                                 *)
(***************************************************************************)
MaxRuns == 2        \* merges of the same device record into one Linux record
NumSamples == 12    \* registry values of each kind given to the codec

Dig(n) == DecDigits[(n % 10) + 1]

\* a Key as BlueZ writes it: 2 * KeyWidth uppercase hex digits
\* (k: the section, p: one of several contents)
OldKey(p, k) == [i \in 1..(2 * KeyWidth) |-> UpperHex[((i * (p + k) + k) % 16) + 1]]

OldLtkSection(p, k) ==
    [Key |-> OldKey(p, k), Authenticated |-> <<Dig(p + 1)>>,
     EncSize |-> <<"1", Dig(p + 5)>>, EDiv |-> <<Dig(p + k)>>,
     Rand |-> <<Dig(2 * p + k), Dig(k)>>]

OldSection(name, p) ==
    CASE name = "General" ->
            [Name |-> <<"k", "b", Dig(p)>>,
             Appearance |-> IF p % 2 = 1 THEN Some(<<"0", "x", Dig(p)>>) ELSE None,
             AddressType |-> <<"s", "t", "a", "t", "i", "c">>,
             SupportedTechnologies |-> <<"L", "E", ";">>,
             Trusted |-> <<"t", "r", "u", "e">>,
             Blocked |-> <<"f", "a", "l", "s", "e">>,
             WakeAllowed |-> IF p % 2 = 0 THEN Some(<<"t", "r", "u", "e">>) ELSE None,
             Services |-> <<Dig(p), ";">>]
      [] name = "DeviceID" ->
            [Source |-> <<Dig(p + 1)>>, Vendor |-> <<Dig(p + 2)>>,
             Product |-> <<Dig(p + 3)>>, Version |-> <<Dig(p + 4)>>]
      [] name = "ConnectionParameters" ->
            [MinInterval |-> <<Dig(p + 5)>>, MaxInterval |-> <<Dig(p + 6)>>,
             Latency |-> <<Dig(p + 7)>>, Timeout |-> <<Dig(p + 8)>>]
      [] name = "LinkKey" ->
            [Key |-> OldKey(p, 1), Type |-> <<Dig(p + 3)>>, PINLength |-> <<Dig(p)>>]
      [] name = "IdentityResolvingKey" -> [Key |-> OldKey(p, 2)]
      [] name = "SlaveLongTermKey" -> OldLtkSection(p, 3)
      [] name = "PeripheralLongTermKey" -> OldLtkSection(p, 4)
      [] name = "LocalSignatureKey" -> [Key |-> OldKey(p, 5)]
      [] name = "LongTermKey" -> OldLtkSection(p, 6)

\* a LinuxInfo / BtDevice: every section an Option
LinuxRecord(present, p) ==
    [n \in SectionNames |-> IF n \in present THEN Some(OldSection(n, p)) ELSE None]

PlainSections == {"General", "DeviceID", "ConnectionParameters"}

\* The sections that carry keys are present in every combination; the three that no
\* merger names are all absent, General alone (BlueZ always writes it), or all present.
LinuxRecords ==
    {LinuxRecord(keyed \cup plain, 1) :
        keyed \in SUBSET (SectionNames \ PlainSections),
        plain \in {{}, {"General"}, PlainSections}}

\* the registry's text for a list of bytes: "hex:c2,90,..." / "hex(b):00,..."
RawHex(prefix, bytes) ==
    prefix \o join([i \in 1..Len(bytes) |-> format_02x(bytes[i])], <<",">>)

HexPrefix == <<"h", "e", "x", ":">>
HexBPrefix == <<"h", "e", "x", "(", "b", ")", ":">>
DwordPrefix == <<"d", "w", "o", "r", "d", ":">>

KeyBytes(n) == [i \in 1..KeyWidth |-> (n * 37 + i * 27) % 256]
RandBytes(n) == [i \in 1..RandWidth |-> (n * 91 + i * 45) % 256]

\* a WinInfo without its address: the raw registry values of one device
WinInfos ==
    {[ltk |-> RawHex(HexPrefix, KeyBytes(1)), irk |-> irk, csrk |-> csrk,
      e_rand |-> e_rand, e_div |-> e_div] :
        irk \in {None, Some(RawHex(HexPrefix, KeyBytes(2)))},
        csrk \in {None, Some(RawHex(HexPrefix, KeyBytes(3)))},
        e_rand \in {None, Some(RawHex(HexBPrefix, RandBytes(1)))},
        e_div \in {None, Some(DwordPrefix \o <<"0", "0", "0", "1", "2", "3", "4", "5">>)}}

(***************************************************************************)
(* bt_device/win_bt_device.rs: the From impls applied to the fields of one *)
(* device, giving a UniBtDevice (without its addresses)                    *)
(***************************************************************************)
OptInto(o, r) == IF IsSome(o) THEN Some(r.val) ELSE None

UniOf(win, big_endian) ==
    LET ltk == hex_to_bytes(win.ltk)
        irk == IF IsSome(win.irk) THEN hex_to_bytes(Unwrap(win.irk)) ELSE Ok(None)
        csrk == IF IsSome(win.csrk) THEN hex_to_bytes(Unwrap(win.csrk)) ELSE Ok(None)
        e_rand == IF IsSome(win.e_rand) THEN hex_b_to_bytes(Unwrap(win.e_rand)) ELSE Ok(None)
        e_div == IF IsSome(win.e_div) THEN dword_to_bytes(Unwrap(win.e_div), big_endian)
                 ELSE Ok(None)
    IN IF ~(ltk.ok /\ irk.ok /\ csrk.ok /\ e_rand.ok /\ e_div.ok) THEN Panic
       ELSE Ok([ltk |-> ltk.val, irk |-> OptInto(win.irk, irk),
                csrk |-> OptInto(win.csrk, csrk), e_rand |-> OptInto(win.e_rand, e_rand),
                e_div |-> OptInto(win.e_div, e_div)])

\* the chain BtDeviceBuilder::new().device(d).ltk(..)...  with one setter for every
\* credential the UniBtDevice carries
BuilderFor(device, u) ==
    LET b1 == BtDeviceBuilder_ltk(BtDeviceBuilder_device(BtDeviceBuilder_new, device), u.ltk)
        b2 == IF IsSome(u.e_rand) THEN BtDeviceBuilder_e_rand(b1, Unwrap(u.e_rand)) ELSE b1
        b3 == IF IsSome(u.e_div) THEN BtDeviceBuilder_e_div(b2, Unwrap(u.e_div)) ELSE b2
        b4 == IF IsSome(u.irk) THEN BtDeviceBuilder_irk(b3, Unwrap(u.irk)) ELSE b3
        b5 == IF IsSome(u.csrk) THEN BtDeviceBuilder_csrk(b4, Unwrap(u.csrk)) ELSE b4
    IN b5

(***************************************************************************)
(* State                                                                   *)
(***************************************************************************)
VARIABLES
    win_info,   \* the device as main.rs holds it: WinInfo, raw registry text
    uni,        \* the same device as a UniBtDevice: decoded bytes
    orig,       \* the Linux record before any merge
    info,       \* the info file that update_linux_devices rewrites
    info_log,   \* the contents info had after each run of update_linux_devices
    bt,         \* the BtDevice that BtDeviceBuilder builds upon
    bt_log,     \* the BtDevice returned by each build
    reg_value,  \* a registry value given to the codec: its kind, bytes and text
    decoded,    \* what the codec made of reg_value: None before the call
    export,     \* raw_values: what serde_ini made of the registry export
    fs0,        \* /var/lib/bluetooth before the run: the info file of each directory
    fs,         \* /var/lib/bluetooth now
    pc,         \* where the run is
    win_devices, \* what get_win_devices found: None before it has run
    pos,        \* how many of the devices update_linux_devices has been through
    writes      \* the info files written, in order

merge_vars == <<win_info, uni, orig, info, info_log, bt, bt_log>>
codec_vars == <<reg_value, decoded>>
run_vars == <<export, fs0, fs, pc, win_devices, pos, writes>>
vars == <<win_info, uni, orig, info, info_log, bt, bt_log, reg_value, decoded,
          export, fs0, fs, pc, win_devices, pos, writes>>

NoValue == [kind |-> "none"]

\* no run: nothing exported, nothing on disk
IdleRun ==
    /\ export = Ok(<<>>)
    /\ fs0 = <<>>
    /\ fs = <<>>
    /\ pc = "idle"
    /\ win_devices = None
    /\ pos = 0
    /\ writes = <<>>

InitMerge ==
    /\ win_info \in WinInfos
    /\ uni \in {UniOf(win_info, be).val : be \in {b \in BOOLEAN : UniOf(win_info, b).ok}}
    /\ orig \in LinuxRecords
    /\ info = orig
    /\ info_log = <<>>
    /\ bt = orig
    /\ bt_log = <<>>

Init ==
    /\ InitMerge
    /\ reg_value = NoValue
    /\ decoded = None
    /\ IdleRun

\* main.rs: one pass of update_linux_devices over the device, whose directory exists:
\* read info, merge, write info
update_linux_devices ==
    /\ Len(info_log) < MaxRuns
    /\ \E m \in {merge_win_dev(info, win_info)} :
       /\ m.ok
       /\ info' = m.val
       /\ info_log' = Append(info_log, m.val)
    /\ UNCHANGED <<win_info, uni, orig, bt, bt_log, codec_vars, run_vars>>

\* linux_bt_device.rs: BtDeviceBuilder::new()...build() upon the current BtDevice
build ==
    /\ Len(bt_log) < MaxRuns
    /\ \E m \in {BtDeviceBuilder_build(BuilderFor(bt, uni))} :
       /\ m.ok
       /\ bt' = m.val
       /\ bt_log' = Append(bt_log, m.val)
    /\ UNCHANGED <<win_info, uni, orig, info, info_log, codec_vars, run_vars>>

Next == update_linux_devices \/ build

Spec == Init /\ [][Next]_vars

(***************************************************************************)
(* The merge: properties of every record a merger has produced             *)
(***************************************************************************)
\* two uppercase hex digits per byte, no separators
HexUpper(bytes) ==
    [i \in 1..(2 * Len(bytes)) |->
        IF i % 2 = 1 THEN UpperHex[(bytes[(i + 1) \div 2] \div 16) + 1]
        ELSE UpperHex[(bytes[i \div 2] % 16) + 1]]

InfoOutputs == {info_log[i] : i \in 1..Len(info_log)}
BtOutputs == {bt_log[i] : i \in 1..Len(bt_log)}
Outputs == InfoOutputs \cup BtOutputs

BothMerged == Len(info_log) >= 1 /\ Len(bt_log) >= 1

CarriesBoth == IsSome(win_info.e_rand) /\ IsSome(win_info.e_div)

LtkVariants == {"LinkKey", "SlaveLongTermKey", "PeripheralLongTermKey"}

\* C1: inside a present LongTermKey section the merge leaves Authenticated and
\* EncSize as they were, under both mergers (LongTermKey::recreate and
\* BtDeviceBuilder::build).
C1_LongTermKeyAuxPreserved ==
    \A m \in Outputs :
        IsSome(orig.LongTermKey) /\ IsSome(m.LongTermKey) =>
            /\ Unwrap(m.LongTermKey).Authenticated = Unwrap(orig.LongTermKey).Authenticated
            /\ Unwrap(m.LongTermKey).EncSize = Unwrap(orig.LongTermKey).EncSize

\* C2: the sections present after the merge are exactly those present before it:
\* none is created, none is removed.
C2_SectionsKept ==
    \A m \in Outputs : \A n \in SectionNames : IsSome(m[n]) <=> IsSome(orig[n])

C2_Witness ==
    /\ BothMerged
    /\ ~IsSome(orig.LongTermKey) /\ CarriesBoth
    /\ ~IsSome(orig.IdentityResolvingKey) /\ IsSome(win_info.irk)
    /\ ~IsSome(orig.General)
    /\ IsSome(orig.LinkKey) /\ IsSome(orig.LocalSignatureKey) /\ IsSome(win_info.csrk)

\* C3: General, DeviceID and ConnectionParameters are unchanged, and in LinkKey,
\* SlaveLongTermKey and PeripheralLongTermKey nothing but Key differs from the input.
C3_OnlyKeyChanges ==
    \A m \in Outputs :
        /\ m.General = orig.General
        /\ m.DeviceID = orig.DeviceID
        /\ m.ConnectionParameters = orig.ConnectionParameters
        /\ \A n \in LtkVariants :
              IsSome(orig[n]) =>
                  /\ IsSome(m[n])
                  /\ [Unwrap(m[n]) EXCEPT !.Key = Unwrap(orig[n]).Key] = Unwrap(orig[n])

C3_Witness ==
    /\ BothMerged
    /\ IsSome(orig.General) /\ IsSome(orig.DeviceID) /\ IsSome(orig.ConnectionParameters)
    /\ \A n \in LtkVariants :
          /\ IsSome(orig[n])
          /\ Unwrap(info[n]).Key # Unwrap(orig[n]).Key
          /\ Unwrap(bt[n]).Key # Unwrap(orig[n]).Key

\* C4: a present LinkKey, SlaveLongTermKey or PeripheralLongTermKey section holds,
\* after the merge, the uppercase hex of the long-term key as its Key, whichever
\* optional credentials the device carries.
C4_KeyIsEncodedLtk ==
    \A m \in Outputs : \A n \in LtkVariants :
        IsSome(orig[n]) => IsSome(m[n]) /\ Unwrap(m[n]).Key = HexUpper(uni.ltk)

C4_Witness ==
    /\ BothMerged
    /\ \A n \in LtkVariants : IsSome(orig[n])
    /\ win_info.irk = None /\ win_info.csrk = None
    /\ win_info.e_rand = None /\ win_info.e_div = None

\* C5: LongTermKey is rewritten only when the device carries both ERand and EDIV:
\* then Key, EDiv and Rand are all replaced; when either is absent the section stays
\* exactly as found.
C5_LongTermKeyRule ==
    IsSome(orig.LongTermKey) =>
        /\ \A m \in InfoOutputs :
              IF CarriesBoth
              THEN /\ IsSome(m.LongTermKey)
                   /\ Unwrap(m.LongTermKey).Key = HexUpper(uni.ltk)
                   /\ Unwrap(m.LongTermKey).EDiv =
                          EDiv_get_linux_format(Unwrap(win_info.e_div)).val
                   /\ Unwrap(m.LongTermKey).Rand =
                          ERand_get_linux_format(Unwrap(win_info.e_rand)).val
                   /\ Unwrap(m.LongTermKey).EDiv # Unwrap(orig.LongTermKey).EDiv
                   /\ Unwrap(m.LongTermKey).Rand # Unwrap(orig.LongTermKey).Rand
              ELSE m.LongTermKey = orig.LongTermKey
        /\ \A m \in BtOutputs :
              IF CarriesBoth
              THEN /\ IsSome(m.LongTermKey)
                   /\ Unwrap(m.LongTermKey).Key = HexUpper(uni.ltk)
                   /\ Unwrap(m.LongTermKey).EDiv = HexUpper(Unwrap(uni.e_div))
                   /\ Unwrap(m.LongTermKey).Rand = HexUpper(Unwrap(uni.e_rand))
              ELSE m.LongTermKey = orig.LongTermKey

C5_Witness ==
    /\ BothMerged
    /\ IsSome(orig.LongTermKey) /\ IsSome(orig.SlaveLongTermKey)
    /\ IsSome(win_info.e_rand) /\ ~IsSome(win_info.e_div)
    /\ Unwrap(info.SlaveLongTermKey).Key = HexUpper(uni.ltk)
    /\ Unwrap(info.LongTermKey).Key # HexUpper(uni.ltk)
    /\ Unwrap(bt.LongTermKey).Key # HexUpper(uni.ltk)

\* C6: IdentityResolvingKey.Key becomes the encoded IRK exactly when the section is
\* present and the device carries an IRK, LocalSignatureKey.Key the encoded CSRK
\* exactly when the section is present and the device carries a CSRK; otherwise the
\* section is as found.
C6_OptionalKeyRule ==
    \A m \in Outputs :
        /\ IF IsSome(orig.IdentityResolvingKey) /\ IsSome(win_info.irk)
           THEN m.IdentityResolvingKey = Some([Key |-> HexUpper(Unwrap(uni.irk))])
           ELSE m.IdentityResolvingKey = orig.IdentityResolvingKey
        /\ IF IsSome(orig.LocalSignatureKey) /\ IsSome(win_info.csrk)
           THEN m.LocalSignatureKey = Some([Key |-> HexUpper(Unwrap(uni.csrk))])
           ELSE m.LocalSignatureKey = orig.LocalSignatureKey

C6_Witness ==
    /\ BothMerged
    /\ IsSome(orig.IdentityResolvingKey) /\ IsSome(win_info.irk)
    /\ info.IdentityResolvingKey # orig.IdentityResolvingKey
    /\ bt.IdentityResolvingKey # orig.IdentityResolvingKey
    /\ IsSome(orig.LocalSignatureKey) /\ ~IsSome(win_info.csrk)

\* C7: the merge is idempotent: merging the same device again into the merged record
\* gives the record the first merge gave.
C7_Idempotent ==
    /\ \A i \in 2..Len(info_log) : info_log[i] = info_log[1]
    /\ \A i \in 2..Len(bt_log) : bt_log[i] = bt_log[1]

C7_Witness ==
    /\ Len(info_log) >= 2 /\ Len(bt_log) >= 2
    /\ info_log[1] # orig /\ bt_log[1] # orig
    /\ IsSome(orig.LongTermKey) /\ CarriesBoth

(***************************************************************************)
(* The codec on its own: a registry value, and what the decoders and       *)
(* encoders of both pipelines make of it                                   *)
(***************************************************************************)
\* the values the source quotes, then generated ones
ExampleAddress == <<193, 244, 17, 10, 41, 200, 0, 0>>       \* c1,f4,11,0a,29,c8,00,00
ExampleKeyAddress == <<192, 251, 249, 96, 28, 19>>          \* c0fbf9601c13
ExampleKey ==                                               \* c2,90,19,3b,...
    <<194, 144, 25, 59, 30, 190, 199, 208, 24, 198, 79, 233, 103, 173, 107, 213>>

SampleBytes(n, width) == [i \in 1..width |-> (n * 53 + i * 29 + n * i * 7) % 256]

\* the two trailing bytes of an address value are padding: zero in most samples
AddressSample(n) ==
    IF n = 0 THEN ExampleAddress
    ELSE [i \in 1..RandWidth |->
             IF i > AddrWidth /\ n % 3 # 0 THEN 0 ELSE SampleBytes(n, RandWidth)[i]]

KeyAddressSample(n) == IF n = 0 THEN ExampleKeyAddress ELSE SampleBytes(n, AddrWidth)

KeySample(n) == IF n = 0 THEN ExampleKey ELSE SampleBytes(n, KeyWidth)

\* the digits as reged prints them (lowercase), or uppercase
Cased(text, upper) == IF upper THEN to_uppercase(text) ELSE text

ByteList(bytes) == join([i \in 1..Len(bytes) |-> format_02x(bytes[i])], <<",">>)

RegValues ==
    {[kind |-> "Address", bytes |-> AddressSample(n),
      text |-> HexBPrefix \o Cased(ByteList(AddressSample(n)), up)] :
        n \in 0..NumSamples, up \in BOOLEAN}
    \cup
    {[kind |-> "KeyAddress", bytes |-> KeyAddressSample(n),
      text |-> Cased(Concat([i \in 1..AddrWidth |-> format_02x(KeyAddressSample(n)[i])]), up)] :
        n \in 0..NumSamples, up \in BOOLEAN}
    \cup
    {[kind |-> "Key", bytes |-> KeySample(n),
      text |-> HexPrefix \o Cased(ByteList(KeySample(n)), up)] :
        n \in 0..NumSamples, up \in BOOLEAN}

IfOk(r, F(_)) == IF r.ok THEN Ok(F(r.val)) ELSE Panic

AndThen(r, F(_)) == IF r.ok THEN F(r.val) ELSE Panic

IdleWinInfo ==
    [ltk |-> RawHex(HexPrefix, KeyBytes(1)), irk |-> None, csrk |-> None,
     e_rand |-> None, e_div |-> None]

\* no merge: one device without optional keys, an empty Linux record
IdleMerge ==
    /\ win_info = IdleWinInfo
    /\ uni = UniOf(IdleWinInfo, FALSE).val
    /\ orig = LinuxRecord({}, 1)
    /\ info = orig
    /\ info_log = <<>>
    /\ bt = orig
    /\ bt_log = <<>>

InitCodec ==
    /\ reg_value \in RegValues
    /\ decoded = None
    /\ IdleMerge
    /\ IdleRun

\* a "hex(b):" Address value: win_bt_device.rs From<Address>, then BtAddress::from;
\* and win_device.rs Address::get_linux_format
decode_address ==
    /\ reg_value.kind = "Address"
    /\ decoded = None
    /\ decoded' = Some([bytes |-> Address_into(reg_value.text),
                        linux_of_bytes |-> IfOk(Address_into(reg_value.text),
                                                bytes_to_linux_hex_address),
                        linux_of_text |-> Address_get_linux_format(reg_value.text)])
    /\ UNCHANGED <<reg_value, merge_vars, run_vars>>

\* a 12-character legacy identifier: win_bt_device.rs From<KeyAddress>; main.rs, the
\* Address value made from it, and what both decoders make of that; WinMac
decode_key_address ==
    /\ reg_value.kind = "KeyAddress"
    /\ decoded = None
    /\ decoded' = Some([bytes |-> KeyAddress_into(reg_value.text),
                        linux_of_bytes |-> IfOk(KeyAddress_into(reg_value.text),
                                                bytes_to_linux_hex_address),
                        address |-> LegacyAddress(reg_value.text),
                        address_bytes |-> AndThen(LegacyAddress(reg_value.text),
                                                  Address_into),
                        linux_of_text |-> AndThen(LegacyAddress(reg_value.text),
                                                  Address_get_linux_format),
                        linux_of_mac |-> WinMac_get_linux_format(reg_value.text)])
    /\ UNCHANGED <<reg_value, merge_vars, run_vars>>

\* a "hex:" key value: hex_to_bytes then bytes_to_linux_hex_key; and
\* Ltk / Irk / Csrk ::get_linux_format
encode_key ==
    /\ reg_value.kind = "Key"
    /\ decoded = None
    /\ decoded' = Some([bytes |-> hex_to_bytes(reg_value.text),
                        linux_of_bytes |-> IfOk(hex_to_bytes(reg_value.text),
                                                bytes_to_linux_hex_key),
                        linux_of_text |-> Ltk_get_linux_format(reg_value.text),
                        linux_of_irk |-> Irk_get_linux_format(reg_value.text),
                        linux_of_csrk |-> Csrk_get_linux_format(reg_value.text)])
    /\ UNCHANGED <<reg_value, merge_vars, run_vars>>

NextCodec == decode_address \/ decode_key_address \/ encode_key

SpecCodec == InitCodec /\ [][NextCodec]_vars

\* uppercase hex, two digits a byte, the bytes joined by ':'
ColonUpper(bytes) ==
    [i \in 1..(3 * Len(bytes) - 1) |->
        IF i % 3 = 0 THEN ":"
        ELSE IF i % 3 = 1 THEN UpperHex[(bytes[(i + 2) \div 3] \div 16) + 1]
        ELSE UpperHex[(bytes[(i + 1) \div 3] % 16) + 1]]

Done(kind) == reg_value.kind = kind /\ IsSome(decoded)

\* C8: a value hex(b):b1,...,b8 decodes to the bytes [b6,b5,b4,b3,b2,b1], and their
\* Linux form is those six bytes as uppercase hex pairs joined by ':', not reversed
\* again (c1,f4,11,0a,29,c8,00,00 gives C8:29:0A:11:F4:C1).
C8_AddressDecode ==
    Done("Address") =>
        LET b == reg_value.bytes
            a == <<b[6], b[5], b[4], b[3], b[2], b[1]>>
            d == Unwrap(decoded)
        IN /\ d.bytes = Ok(a)
           /\ d.linux_of_bytes = Ok(ColonUpper(a))
           /\ d.linux_of_text = Ok(ColonUpper(a))
           /\ b = ExampleAddress =>
                  d.linux_of_bytes.val =
                      <<"C", "8", ":", "2", "9", ":", "0", "A", ":",
                        "1", "1", ":", "F", "4", ":", "C", "1">>

C8_Witness ==
    /\ Done("Address")
    /\ reg_value.bytes[7] # 0
    /\ reg_value.bytes[1] # reg_value.bytes[6]
    /\ \E i \in 1..Len(reg_value.text) : reg_value.text[i] \in {"a", "b", "c", "d", "e", "f"}

\* C9: a 12-character legacy identifier decodes to its six bytes in the order written,
\* and every Linux form derived for it (from the bytes, through the Address value made
\* up in get_win_devices, and by WinMac) is those bytes, uppercase, joined by ':'.
C9_LegacyAddress ==
    Done("KeyAddress") =>
        LET b == reg_value.bytes
            d == Unwrap(decoded)
        IN /\ d.bytes = Ok(b)
           /\ d.linux_of_bytes = Ok(ColonUpper(b))
           /\ d.address_bytes = Ok(b)
           /\ d.linux_of_text = Ok(ColonUpper(b))
           /\ d.linux_of_mac = Ok(ColonUpper(b))
           /\ b = ExampleKeyAddress =>
                  d.linux_of_text.val =
                      <<"C", "0", ":", "F", "B", ":", "F", "9", ":",
                        "6", "0", ":", "1", "C", ":", "1", "3">>

C9_Witness ==
    /\ Done("KeyAddress")
    /\ reg_value.bytes # rev(reg_value.bytes)
    /\ \E i \in 1..Len(reg_value.text) : reg_value.text[i] \in {"a", "b", "c", "d", "e", "f"}
    /\ Unwrap(decoded).address.ok

\* C10: a key value hex:b1,...,b16 becomes the 16 bytes in the given order, two
\* uppercase hex digits each, no separators (32 characters), by the string-based
\* encoder and by the byte-based one alike.
C10_KeyEncode ==
    Done("Key") =>
        LET b == reg_value.bytes
            d == Unwrap(decoded)
        IN /\ d.bytes = Ok(b)
           /\ d.linux_of_bytes = Ok(HexUpper(b))
           /\ d.linux_of_text = Ok(HexUpper(b))
           /\ d.linux_of_irk = Ok(HexUpper(b))
           /\ d.linux_of_csrk = Ok(HexUpper(b))
           /\ Len(d.linux_of_text.val) = 2 * KeyWidth
           /\ b = ExampleKey =>
                  d.linux_of_text.val =
                      <<"C", "2", "9", "0", "1", "9", "3", "B", "1", "E", "B", "E",
                        "C", "7", "D", "0", "1", "8", "C", "6", "4", "F", "E", "9",
                        "6", "7", "A", "D", "6", "B", "D", "5">>

C10_Witness ==
    /\ Done("Key")
    /\ \E i \in 1..KeyWidth : reg_value.bytes[i] < 16
    /\ \E i \in 1..Len(reg_value.text) : reg_value.text[i] \in {"a", "b", "c", "d", "e", "f"}

(***************************************************************************)
(* The dword decoder on its own: win_reged_helpers::dword_to_bytes on      *)
(* values dword:XXXXXXXX, called twice on the same value                   *)
(***************************************************************************)
DwordDigits == 8    \* reged prints a dword as eight hex digits

\* the digits after "dword:": decimal digits only, or hex digits of either case;
\* sample 0 is the value the source quotes for AuthReq, 0000002d
DwordSample(n, style) ==
    IF n = 0
    THEN <<"0", "0", "0", "0", "0", "0",
           (IF style = "dec" THEN "0" ELSE "2"),
           (IF style = "dec" THEN "0" ELSE IF style = "hex" THEN "d" ELSE "D")>>
    ELSE [i \in 1..DwordDigits |->
             IF style = "dec" THEN DecDigits[((n * 7 + i * 3 + n * i) % 10) + 1]
             ELSE IF style = "hex" THEN LowerHex[((n * 7 + i * 3 + n * i) % 16) + 1]
             ELSE UpperHex[((n * 7 + i * 3 + n * i) % 16) + 1]]

\* big_endian: the byte order of the build target (to_ne_bytes)
DwordValues ==
    {[kind |-> "Dword", text |-> DwordPrefix \o DwordSample(n, style),
      big_endian |-> be] :
        n \in 0..NumSamples, style \in {"dec", "hex", "HEX"}, be \in BOOLEAN}

InitDword ==
    /\ reg_value \in DwordValues
    /\ decoded = None
    /\ IdleMerge
    /\ IdleRun

\* From<EDiv>: dword_to_bytes on the value; decoded keeps the result of every call
decode_dword ==
    /\ reg_value.kind = "Dword"
    /\ Len(IF IsSome(decoded) THEN Unwrap(decoded).calls ELSE <<>>) < MaxRuns
    /\ decoded' = Some([calls |->
                           Append(IF IsSome(decoded) THEN Unwrap(decoded).calls ELSE <<>>,
                                  dword_to_bytes(reg_value.text, reg_value.big_endian))])
    /\ UNCHANGED <<reg_value, merge_vars, run_vars>>

NextDword == decode_dword

SpecDword == InitDword /\ [][NextDword]_vars

IsDwordGrammar(text) ==
    /\ Len(text) = Len(DwordPrefix) + DwordDigits
    /\ SubSeq(text, 1, Len(DwordPrefix)) = DwordPrefix
    /\ \A i \in (Len(DwordPrefix) + 1)..Len(text) : is_ascii_hexdigit(text[i])

\* C11: on every value dword: followed by eight hex digits, the dword decode returns
\* four bytes and never fails, and a second call on the same value gives the same
\* bytes.
C11_DwordDecodeTotal ==
    (Done("Dword") /\ IsDwordGrammar(reg_value.text)) =>
        \A i \in 1..Len(Unwrap(decoded).calls) :
            /\ Unwrap(decoded).calls[i].ok
            /\ Len(Unwrap(decoded).calls[i].val) = DwordWidth
            /\ Unwrap(decoded).calls[i] = Unwrap(decoded).calls[1]

\* what does hold: the decode is total on eight DECIMAL digits, and deterministic
C11_DecimalDigitsDecode ==
    (Done("Dword") /\ \A i \in 7..Len(reg_value.text) : reg_value.text[i] \in Range(DecDigits))
        => \A i \in 1..Len(Unwrap(decoded).calls) :
               /\ Unwrap(decoded).calls[i].ok
               /\ Len(Unwrap(decoded).calls[i].val) = DwordWidth
               /\ Unwrap(decoded).calls[i] = Unwrap(decoded).calls[1]

(***************************************************************************)
(* main.rs, get_win_devices: from raw_values (the export as serde_ini      *)
(* parsed it) to the list of WinDevice                                     *)
(***************************************************************************)
\* str::split(sep) for a one-character separator: the pieces between one separator
\* (or the start) and the next (or the end)
split_by(s, sep) ==
    LET at == {i \in 1..Len(s) : s[i] = sep}
        cut == [k \in 0..(Cardinality(at) + 1) |->
                   IF k = 0 THEN 0
                   ELSE IF k = Cardinality(at) + 1 THEN Len(s) + 1
                   ELSE CHOOSE i \in at : Cardinality({j \in at : j < i}) = k - 1]
    IN [k \in 1..(Cardinality(at) + 1) |-> SubSeq(s, cut[k - 1] + 1, cut[k] - 1)]

\* str::trim_matches(c): every leading and every trailing c is dropped
RECURSIVE trim_start_matches(_, _)
trim_start_matches(s, c) ==
    IF s # <<>> /\ Head(s) = c THEN trim_start_matches(Tail(s), c) ELSE s

trim_matches(s, c) == rev(trim_start_matches(rev(trim_start_matches(s, c)), c))

\* k.split("\\").count()
path_len(k) == Len(split_by(k, "\\"))

\* the depth of an adapter's key: HKEY_LOCAL_MACHINE\SYSTEM\ControlSet001\Services\
\* BTHPORT\Parameters\Keys\c0fbf9601c13
AdapterDepth == 8

\* the names serde gives the fields of WinInfo
Name_AuthReq ==
    <<"A", "u", "t", "h", "R", "e", "q">>
Name_ERand ==
    <<"E", "R", "a", "n", "d">>
Name_LTK ==
    <<"L", "T", "K">>
Name_KeyLength ==
    <<"K", "e", "y", "L", "e", "n", "g", "t", "h">>
Name_EDIV ==
    <<"E", "D", "I", "V">>
Name_AddressType ==
    <<"A", "d", "d", "r", "e", "s", "s", "T", "y", "p", "e">>
Name_Address ==
    <<"A", "d", "d", "r", "e", "s", "s">>
Name_MasterIRKStatus ==
    <<"M", "a", "s", "t", "e", "r", "I", "R", "K", "S", "t", "a", "t", "u",
      "s">>
Name_IRK ==
    <<"I", "R", "K">>
\* csrk carries no serde rename: the field is read under its Rust name
Name_csrk ==
    <<"c", "s", "r", "k">>

\* the value of the field called name, if the map has it
Lookup(fields, name) ==
    IF \E i \in 1..Len(fields) : fields[i].name = name
    THEN Some(fields[CHOOSE i \in 1..Len(fields) : fields[i].name = name].value)
    ELSE None

\* serde_ini::to_string(&map) read back by serde_ini::from_str::<WinInfo>, then
\* .expect(..): LTK and Address are not Options, a map without one of them is an Err
WinInfo_from_str(fields) ==
    IF ~IsSome(Lookup(fields, Name_LTK)) \/ ~IsSome(Lookup(fields, Name_Address))
    THEN Panic
    ELSE Ok([auth_req |-> Lookup(fields, Name_AuthReq),
             e_rand |-> Lookup(fields, Name_ERand),
             ltk |-> Unwrap(Lookup(fields, Name_LTK)),
             key_length |-> Lookup(fields, Name_KeyLength),
             e_div |-> Lookup(fields, Name_EDIV),
             address_type |-> Lookup(fields, Name_AddressType),
             address |-> Unwrap(Lookup(fields, Name_Address)),
             master_irk_status |-> Lookup(fields, Name_MasterIRKStatus),
             irk |-> Lookup(fields, Name_IRK),
             csrk |-> Lookup(fields, Name_csrk)])

\* "AuthReq" -> AuthReq: the map with the quotes around its keys removed
unquote_keys(h) ==
    [i \in 1..Len(h) |-> [name |-> trim_matches(h[i].name, "\""), value |-> h[i].value]]

\* a sequence of results as the result of a sequence: a panic in any one is a panic
RECURSIVE Collect(_)
Collect(rs) ==
    IF rs = <<>> THEN Ok(<<>>)
    ELSE IF ~Head(rs).ok THEN Panic
    ELSE (CHOOSE r \in {IF c.ok THEN Ok(<<Head(rs).val>> \o c.val) ELSE Panic :
                           c \in {Collect(Tail(rs))}} : TRUE)

\* an Err that `?` returns to the caller (a panic has no value at all)
Err(e) == [ok |-> FALSE, err |-> e]

IsErr(r) == ~r.ok /\ "err" \in DOMAIN r

\* mutant: the last segment of the path taken for the device and the name of the
\* value for the adapter
legacy_device_swapped(adapter_mac, k, v) ==
    IF ~LegacyAddress(adapter_mac).ok THEN Panic
    ELSE IF ~WinInfo_from_str(<<[name |-> Name_Address,
                                 value |-> LegacyAddress(adapter_mac).val],
                                [name |-> Name_LTK, value |-> v]>>).ok THEN Panic
    ELSE Ok([info |-> WinInfo_from_str(
                          <<[name |-> Name_Address,
                             value |-> LegacyAddress(adapter_mac).val],
                            [name |-> Name_LTK, value |-> v]>>).val,
             meta |-> [adapter_mac |-> k]])

\* main.rs 168-203: the WinDevice made of one field k = v of an adapter's key
legacy_device(adapter_mac, k, v) ==
    IF ~LegacyAddress(k).ok THEN Panic
    ELSE IF ~WinInfo_from_str(<<[name |-> Name_Address, value |-> LegacyAddress(k).val],
                                [name |-> Name_LTK, value |-> v]>>).ok THEN Panic
    ELSE Ok([info |-> WinInfo_from_str(
                          <<[name |-> Name_Address, value |-> LegacyAddress(k).val],
                            [name |-> Name_LTK, value |-> v]>>).val,
             meta |-> [adapter_mac |-> adapter_mac]])

\* mutant: every value of an adapter's key taken for a device
is_device_field_any(f) == Len(f.name) > 0

\* .filter(|(k, v)| is_valid_64_hex(k))
is_device_field(f) == is_valid_64_hex(f.name)

\* main.rs 156-205: the devices of one adapter's key, the last segment of whose path
\* is the adapter
legacy_devices(entry) ==
    Collect([i \in 1..Len(SelectSeq(unquote_keys(entry.fields), is_device_field)) |->
                legacy_device(split_by(entry.path, "\\")[path_len(entry.path)],
                              SelectSeq(unquote_keys(entry.fields), is_device_field)[i].name,
                              SelectSeq(unquote_keys(entry.fields), is_device_field)[i].value)])

\* main.rs 141-146
is_adapter_entry(entry) == path_len(entry.path) = AdapterDepth

\* main.rs 211-217
is_device_entry(entry) == path_len(entry.path) > AdapterDepth

\* main.rs 139-206
bt_values_1(raw_values) ==
    CHOOSE r \in {IF c.ok THEN Ok(Concat(c.val)) ELSE Panic :
                     c \in {Collect([i \in 1..Len(SelectSeq(raw_values, is_adapter_entry)) |->
                                        legacy_devices(
                                            SelectSeq(raw_values, is_adapter_entry)[i])])}} :
        TRUE

\* mutant: the adapter taken from the last segment of the path
extended_device_last(entry) ==
    IF ~WinInfo_from_str(unquote_keys(entry.fields)).ok THEN Panic
    ELSE Ok([info |-> WinInfo_from_str(unquote_keys(entry.fields)).val,
             meta |-> [adapter_mac |->
                          split_by(entry.path, "\\")[path_len(entry.path)]]])

\* main.rs 218-248: the WinDevice of one device's own key; the adapter is the segment
\* before the last
extended_device(entry) ==
    IF ~WinInfo_from_str(unquote_keys(entry.fields)).ok THEN Panic
    ELSE Ok([info |-> WinInfo_from_str(unquote_keys(entry.fields)).val,
             meta |-> [adapter_mac |->
                          split_by(entry.path, "\\")[path_len(entry.path) - 1]]])

\* main.rs 209-249
bt_values_2(raw_values) ==
    Collect([i \in 1..Len(SelectSeq(raw_values, is_device_entry)) |->
                extended_device(SelectSeq(raw_values, is_device_entry)[i])])

\* the adapter and the device a WinDevice names, as written in the export
d_path_key(d) == <<d.meta.adapter_mac, d.info.address>>

\* mutant: a device that already came from its adapter's key is not taken again
\* from a key of its own
get_win_devices_of_dedup(parsed) ==
    IF ~parsed.ok THEN Err("serde_ini")
    ELSE CHOOSE r \in {IF v1.ok /\ v2.ok
                       THEN Ok([bt_values_1 |-> v1.val, bt_values_2 |-> v2.val,
                                all_devices |->
                                    v1.val \o SelectSeq(v2.val,
                                        LAMBDA d : \A i \in 1..Len(v1.val) :
                                            d_path_key(v1.val[i]) # d_path_key(d))])
                       ELSE Panic :
                          v1 \in {bt_values_1(parsed.val)},
                          v2 \in {bt_values_2(parsed.val)}} : TRUE

\* mutant: an export serde_ini rejects counts as an empty one
get_win_devices_of_lenient(parsed) ==
    IF ~parsed.ok
    THEN Ok([bt_values_1 |-> <<>>, bt_values_2 |-> <<>>, all_devices |-> <<>>])
    ELSE CHOOSE r \in {IF v1.ok /\ v2.ok
                       THEN Ok([bt_values_1 |-> v1.val, bt_values_2 |-> v2.val,
                                all_devices |-> v1.val \o v2.val])
                       ELSE Panic :
                          v1 \in {bt_values_1(parsed.val)},
                          v2 \in {bt_values_2(parsed.val)}} : TRUE

\* main.rs 136-255: Err when serde_ini rejects the export, a panic out of an expect,
\* else the devices of the adapters' keys followed by those of the devices' own keys
get_win_devices_of(parsed) ==
    IF ~parsed.ok THEN Err("serde_ini")
    ELSE CHOOSE r \in {IF v1.ok /\ v2.ok
                       THEN Ok([bt_values_1 |-> v1.val, bt_values_2 |-> v2.val,
                                all_devices |-> v1.val \o v2.val])
                       ELSE Panic :
                          v1 \in {bt_values_1(parsed.val)},
                          v2 \in {bt_values_2(parsed.val)}} : TRUE

\* main.rs 287-289: the directory of a device under /var/lib/bluetooth, as the pair
\* of its two last components
d_path_of(d) ==
    IF ~WinMac_get_linux_format(d.meta.adapter_mac).ok
       \/ ~Address_get_linux_format(d.info.address).ok THEN Panic
    ELSE Ok(<<WinMac_get_linux_format(d.meta.adapter_mac).val,
              Address_get_linux_format(d.info.address).val>>)

\* mutant: a device without a directory is an error
update_of_strict(d, disk) ==
    IF ~d_path_of(d).ok THEN Panic
    ELSE IF d_path_of(d).val \notin DOMAIN disk THEN Panic
    ELSE IF ~IsSome(disk[d_path_of(d).val]) THEN Panic
    ELSE CHOOSE r \in {IF m.ok THEN Ok([kind |-> "write", path |-> d_path_of(d).val,
                                        info |-> m.val])
                       ELSE Panic :
                          m \in {merge_win_dev(Unwrap(disk[d_path_of(d).val]), d.info)}} :
             TRUE

\* main.rs 286-365, for one device: [kind |-> "skip"] when the directory does not
\* exist, a panic, or the info file to write
update_of(d, disk) ==
    IF ~d_path_of(d).ok THEN Panic
    ELSE IF d_path_of(d).val \notin DOMAIN disk THEN Ok([kind |-> "skip"])
    ELSE IF ~IsSome(disk[d_path_of(d).val]) THEN Panic
    ELSE CHOOSE r \in {IF m.ok THEN Ok([kind |-> "write", path |-> d_path_of(d).val,
                                        info |-> m.val])
                       ELSE Panic :
                          m \in {merge_win_dev(Unwrap(disk[d_path_of(d).val]), d.info)}} :
             TRUE

(***************************************************************************)
(* A run: the export of one registry, the directories under                *)
(* /var/lib/bluetooth, get_win_devices and then update_linux_devices over  *)
(* what it found (main.rs:83 has that call commented out; the model makes  *)
(* it, with the devices get_win_devices returned)                          *)
(***************************************************************************)
MaxEntries == 2     \* keys in one export

\* HKEY_LOCAL_MACHINE\SYSTEM\ControlSet001\Services\BTHPORT\Parameters\Keys
KeysSegs ==
    <<<<"H", "K", "E", "Y", "_", "L", "O", "C", "A", "L", "_", "M", "A", "C", "H", "I", "N", "E">>,
      <<"S", "Y", "S", "T", "E", "M">>,
      <<"C", "o", "n", "t", "r", "o", "l", "S", "e", "t", "0", "0", "1">>,
      <<"S", "e", "r", "v", "i", "c", "e", "s">>,
      <<"B", "T", "H", "P", "O", "R", "T">>,
      <<"P", "a", "r", "a", "m", "e", "t", "e", "r", "s">>,
      <<"K", "e", "y", "s">>>>

\* registry names WinInfo does not read
Name_CentralIRK == <<"C", "e", "n", "t", "r", "a", "l", "I", "R", "K">>
Name_CSRK == <<"C", "S", "R", "K">>

AdapterA == ExampleKeyAddress                   \* c0fbf9601c13
AdapterB == <<0, 26, 125, 218, 113, 19>>        \* 001a7dda7113
DevX == <<76, 135, 93, 38, 220, 159>>           \* 4c875d26dc9f
DevY == <<200, 41, 10, 17, 244, 193>>           \* c8290a11f4c1

\* six bytes as reged names a key or a value: twelve lowercase hex digits
HexLower(bytes) == Concat([i \in 1..Len(bytes) |-> format_02x(bytes[i])])

\* the Address value of a device: its bytes backwards, then two zero bytes
AddressValue(bytes) == HexBPrefix \o ByteList(rev(bytes) \o <<0, 0>>)

\* "name"=value as serde_ini hands it over: the quotes still around the name
Field(name, value) == [name |-> <<"\"">> \o name \o <<"\"">>, value |-> value]

\* one key of the export; segs is what its path is made of
Entry(segs, fields) == [segs |-> segs, path |-> join(segs, <<"\\">>), fields |-> fields]

FullFields(dev, n) ==
    <<Field(Name_LTK, RawHex(HexPrefix, KeyBytes(n))),
      Field(Name_Address, AddressValue(dev)),
      Field(Name_ERand, RawHex(HexBPrefix, RandBytes(n))),
      Field(Name_EDIV, DwordPrefix \o DwordSample(n, "dec")),
      Field(Name_IRK, RawHex(HexPrefix, KeyBytes(n + 1))),
      Field(Name_CSRK, RawHex(HexPrefix, KeyBytes(n + 2))),
      Field(Name_AuthReq, DwordPrefix \o DwordSample(0, "hex")),
      Field(Name_KeyLength, DwordPrefix \o DwordSample(0, "dec"))>>

\* the keys an export is made of
EntryKinds ==
    <<\* the Keys key itself
      Entry(KeysSegs, <<>>),
      \* adapter A with one paired device, X, and a value of its own
      Entry(Append(KeysSegs, HexLower(AdapterA)),
            <<Field(Name_CentralIRK, RawHex(HexPrefix, KeyBytes(9))),
              Field(HexLower(DevX), RawHex(HexPrefix, KeyBytes(4)))>>),
      \* adapter A with two paired devices
      Entry(Append(KeysSegs, HexLower(AdapterA)),
            <<Field(HexLower(DevY), RawHex(HexPrefix, KeyBytes(5))),
              Field(HexLower(DevX), RawHex(HexPrefix, KeyBytes(4)))>>),
      \* adapter B with no paired device
      Entry(Append(KeysSegs, HexLower(AdapterB)),
            <<Field(Name_CentralIRK, RawHex(HexPrefix, KeyBytes(9)))>>),
      \* device X under adapter A, every value
      Entry(KeysSegs \o <<HexLower(AdapterA), HexLower(DevX)>>, FullFields(DevX, 6)),
      \* device X under adapter A, LTK and Address alone
      Entry(KeysSegs \o <<HexLower(AdapterA), HexLower(DevX)>>,
            SubSeq(FullFields(DevX, 7), 1, 2)),
      \* device Y under adapter A, every value
      Entry(KeysSegs \o <<HexLower(AdapterA), HexLower(DevY)>>, FullFields(DevY, 8)),
      \* device Y without its LTK
      Entry(KeysSegs \o <<HexLower(AdapterA), HexLower(DevY)>>,
            Tail(FullFields(DevY, 8))),
      \* device Y with an LTK of two bytes
      Entry(KeysSegs \o <<HexLower(AdapterA), HexLower(DevY)>>,
            <<Field(Name_LTK, RawHex(HexPrefix, <<194, 144>>)),
              Field(Name_Address, AddressValue(DevY))>>),
      \* a key one level further down, named otherwise than the device in it
      Entry(KeysSegs \o <<HexLower(AdapterA), HexLower(AdapterB), HexLower(DevX)>>,
            FullFields(DevY, 3))>>

\* raw_values in the order the HashMap is walked: up to MaxEntries keys, no path twice
RawValues ==
    {[i \in 1..Len(s) |-> EntryKinds[s[i]]] :
        s \in {q \in UNION {[1..n -> 1..Len(EntryKinds)] : n \in 0..MaxEntries} :
                  \A i, j \in 1..Len(q) :
                      i # j => EntryKinds[q[i]].path # EntryKinds[q[j]].path}}

\* serde_ini::from_str of the export: the map, or Err on text that is no ini
Exports == {Err("serde_ini")} \cup {Ok(r) : r \in RawValues}

\* <adapter>/<device> under /var/lib/bluetooth
Dir(adapter, device) == <<ColonUpper(adapter), ColonUpper(device)>>

\* X and Y may be known to BlueZ under adapter A; the directory of Y may lack its
\* info file
FsStates ==
    {[d \in dirs |-> IF d = Dir(AdapterA, DevX) THEN Some(LinuxRecord(SectionNames, 1))
                     ELSE y] :
        dirs \in SUBSET {Dir(AdapterA, DevX), Dir(AdapterA, DevY)},
        y \in {None, Some(LinuxRecord(SectionNames, 2))}}

InitRun ==
    /\ export \in Exports
    /\ fs0 \in FsStates
    /\ fs = fs0
    /\ pc = "start"
    /\ win_devices = None
    /\ pos = 0
    /\ writes = <<>>
    /\ IdleMerge
    /\ reg_value = NoValue
    /\ decoded = None

\* main.rs 81: let win_devices = get_win_devices()
get_win_devices ==
    /\ pc = "start"
    /\ \E r \in {get_win_devices_of(export)} :
       /\ win_devices' = Some(r)
       /\ pc' = IF r.ok THEN "update" ELSE IF IsErr(r) THEN "error" ELSE "panic"
    /\ UNCHANGED <<export, fs0, fs, pos, writes, merge_vars, codec_vars>>

\* update_linux_devices: the iterator chain pulls one device at a time through
\* path, exists, read, merge and write
update_linux_device ==
    /\ pc = "update"
    /\ pos < Len(Unwrap(win_devices).val.all_devices)
    /\ \E r \in {update_of(Unwrap(win_devices).val.all_devices[pos + 1], fs)} :
       IF ~r.ok
       THEN pc' = "panic" /\ UNCHANGED <<fs, pos, writes>>
       ELSE IF r.val.kind = "skip"
       THEN pos' = pos + 1 /\ UNCHANGED <<pc, fs, writes>>
       ELSE /\ fs' = [fs EXCEPT ![r.val.path] = Some(r.val.info)]
            /\ writes' = Append(writes, [path |-> r.val.path, info |-> r.val.info])
            /\ pos' = pos + 1
            /\ UNCHANGED pc
    /\ UNCHANGED <<export, fs0, win_devices, merge_vars, codec_vars>>

NextRun == get_win_devices \/ update_linux_device

SpecRun == InitRun /\ [][NextRun]_vars

\* the run is over: an Err, a panic, or every device gone through
RunEnded ==
    \/ pc \in {"error", "panic"}
    \/ pc = "update" /\ pos = Len(Unwrap(win_devices).val.all_devices)

(***************************************************************************)
(* The run: properties                                                     *)
(***************************************************************************)
\* the disk after update_linux_devices has gone through devs (a panic stops it)
RECURSIVE RunOver(_, _)
RunOver(devs, disk) ==
    IF devs = <<>> THEN disk
    ELSE CHOOSE x \in {IF ~r.ok THEN disk
                       ELSE IF r.val.kind = "skip" THEN RunOver(Tail(devs), disk)
                       ELSE RunOver(Tail(devs),
                                    [disk EXCEPT ![r.val.path] = Some(r.val.info)]) :
                          r \in {update_of(Head(devs), disk)}} : TRUE

\* a key that is no device's own key, or one of which a WinDevice can be made
Assembles(entry) == ~is_device_entry(entry) \/ extended_device(entry).ok

EveryDirHasInfo == \A d \in DOMAIN fs0 : IsSome(fs0[d])

\* C12: a device that cannot be assembled (its field set has no LTK) is abandoned
\* alone: the run goes on to its end without a panic, and the disk is then what the
\* run over the export without that device's key leaves.
C12_FailureIsPerDevice ==
    (RunEnded /\ export.ok /\ EveryDirHasInfo) =>
        /\ pc = "update"
        /\ fs = RunOver(get_win_devices_of(
                            Ok(SelectSeq(export.val, Assembles))).val.all_devices, fs0)

IsKeyString(k) == Len(k) = 2 * KeyWidth /\ \A i \in 1..Len(k) : is_ascii_hexdigit(k[i])

\* C13: every Key in an info file the run has written is 32 hex digits: a device whose
\* LTK, IRK or CSRK does not decode to 16 bytes gives no record and no write.
C13_WrittenKeysHaveFixedWidth ==
    \A i \in 1..Len(writes) :
        \A s \in SectionNames \ PlainSections :
            IsSome(writes[i].info[s]) => IsKeyString(Unwrap(writes[i].info[s]).Key)

AllDevices == Unwrap(win_devices).val.all_devices

\* the device update_linux_devices takes next is one whose directory does not exist
NextIsUnknown ==
    /\ pc = "update"
    /\ pos < Len(AllDevices)
    /\ d_path_of(AllDevices[pos + 1]).ok
    /\ d_path_of(AllDevices[pos + 1]).val \notin DOMAIN fs

\* C14: a device of the export whose directory <adapter>/<device> does not exist is
\* skipped: nothing is created or written for it, it is no error, and the run goes on
\* to the next device.  No run ever adds a directory or writes outside the existing
\* ones.
C14_MissingDirSkipped ==
    /\ [](/\ DOMAIN fs = DOMAIN fs0
          /\ \A i \in 1..Len(writes) : writes[i].path \in DOMAIN fs0)
    /\ [][NextIsUnknown =>
              /\ pc' = "update"
              /\ pos' = pos + 1
              /\ fs' = fs
              /\ writes' = writes]_vars

\* a device was skipped for want of a directory, and a later one was written
C14_Witness ==
    /\ pc = "update"
    /\ \E i \in 1..pos :
          /\ d_path_of(AllDevices[i]).val \notin DOMAIN fs0
          /\ \E j \in (i + 1)..pos :
                \E w \in 1..Len(writes) : writes[w].path = d_path_of(AllDevices[j]).val

\* C15: when serde_ini rejects the export, get_win_devices returns an Err: the run
\* ends there, with no device assembled and nothing written.
C15_ParseFailureIsFatal ==
    ~export.ok =>
        /\ writes = <<>>
        /\ fs = fs0
        /\ pos = 0
        /\ pc \in {"start", "error"}
        /\ pc = "error" <=> IsSome(win_devices)
        /\ IsSome(win_devices) => IsErr(Unwrap(win_devices))

C15_Witness ==
    /\ ~export.ok
    /\ pc = "error"
    /\ IsSome(win_devices)
    /\ \E d \in DOMAIN fs0 : IsSome(fs0[d])

\* the devices update_linux_devices has been through whose directory exists
HasDir(d) == d_path_of(d).ok /\ d_path_of(d).val \in DOMAIN fs0

Processed == SelectSeq(SubSeq(AllDevices, 1, pos), HasDir)

\* what the k-th write found in the file: the write before it to the same path, or
\* the file as the run found it
PrevInfo(k) ==
    LET earlier == {j \in 1..(k - 1) : writes[j].path = writes[k].path}
    IN IF earlier = {} THEN Unwrap(fs0[writes[k].path])
       ELSE writes[CHOOSE j \in earlier : \A i \in earlier : i <= j].info

\* the writes to one path, in order
WritesTo(p) == SelectSeq(writes, LAMBDA w : w.path = p)

\* C16: a device found under both shapes is kept twice, the one from the adapter's
\* key first; each merge reads the file as the write before it left it, one write per
\* device with a directory, and the file ends as the last of them wrote it, with
\* the LTK of the device processed last.
C16_DuplicatesMergedInTurn ==
    (IsSome(win_devices) /\ Unwrap(win_devices).ok) =>
        /\ AllDevices = Unwrap(win_devices).val.bt_values_1
                            \o Unwrap(win_devices).val.bt_values_2
        /\ Len(writes) = Len(Processed)
        /\ \A k \in 1..Len(writes) :
              /\ writes[k].path = d_path_of(Processed[k]).val
              /\ merge_win_dev(PrevInfo(k), Processed[k].info) = Ok(writes[k].info)
        /\ \A p \in DOMAIN fs0 :
              WritesTo(p) # <<>> =>
                  /\ fs[p] = Some(WritesTo(p)[Len(WritesTo(p))].info)
                  /\ \A k \in 1..Len(writes) :
                        (writes[k].path = p /\ \A j \in (k + 1)..Len(writes) :
                                                  writes[j].path # p)
                        => /\ IsSome(Unwrap(fs[p]).LinkKey)
                           /\ Ok(Unwrap(Unwrap(fs[p]).LinkKey).Key)
                                  = Ltk_get_linux_format(Processed[k].info.ltk)

\* device X came from adapter A's key and from a key of its own, with two LTKs, and
\* both were written; the file holds the second
C16_Witness ==
    /\ IsSome(win_devices) /\ Unwrap(win_devices).ok
    /\ Len(Unwrap(win_devices).val.bt_values_1) >= 1
    /\ Len(writes) = 2
    /\ writes[1].path = writes[2].path
    /\ Processed[1] = Unwrap(win_devices).val.bt_values_1[1]
    /\ Processed[2] \notin Range(Unwrap(win_devices).val.bt_values_1)
    /\ Processed[1].info.ltk # Processed[2].info.ltk
    /\ Unwrap(writes[1].info.LinkKey).Key # Unwrap(writes[2].info.LinkKey).Key
    /\ fs[writes[2].path] = Some(writes[2].info)

\* the values of the adapters' keys that name a device: the key's last segment, the
\* name of the value without its quotes, and the value
LegacyValues ==
    {<<e.segs[AdapterDepth], SubSeq(f.name, 2, Len(f.name) - 1), f.value>> :
        <<e, f>> \in {<<e, f>> \in UNION {{e} \X Range(e.fields) :
                                             e \in Range(export.val)} :
                         /\ Len(e.segs) = AdapterDepth
                         /\ Len(f.name) = 2 * AddrWidth + 2
                         /\ \A i \in 2..(Len(f.name) - 1) : is_ascii_hexdigit(f.name[i])}}

\* what a device from an adapter's key is made of: its adapter, its address as a
\* directory name, its LTK
LegacyTriple(d) == <<d.meta.adapter_mac, Address_get_linux_format(d.info.address), d.info.ltk>>

Assembled == IsSome(win_devices) /\ Unwrap(win_devices).ok

\* C17: from a key of 8 segments, one device for each value named by 12 hex digits:
\* the key's last segment is its adapter, the name of the value its address and the
\* value its LTK; nothing else of the key goes into it.
C17_LegacyDeviceFromValueName ==
    Assembled =>
        /\ Len(Unwrap(win_devices).val.bt_values_1) = Cardinality(LegacyValues)
        /\ {LegacyTriple(d) : d \in Range(Unwrap(win_devices).val.bt_values_1)}
               = {<<v[1], WinMac_get_linux_format(v[2]), v[3]>> : v \in LegacyValues}
        /\ \A d \in Range(Unwrap(win_devices).val.bt_values_1) :
              /\ d.info.e_rand = None /\ d.info.e_div = None
              /\ d.info.irk = None /\ d.info.csrk = None

\* adapter A's key with a value of its own and the LTK of device X
C17_Witness ==
    /\ Assembled
    /\ Len(export.val) = 1
    /\ Len(export.val[1].fields) = 2
    /\ Len(Unwrap(win_devices).val.bt_values_1) = 1
    /\ d_path_of(Unwrap(win_devices).val.bt_values_1[1]) = Ok(Dir(AdapterA, DevX))
    /\ pos = 1

\* C17 as stated: the address of a device from a key of 8 segments is the key's last
\* segment
C17_DeviceIsFinalSegment ==
    Assembled =>
        \A d \in Range(Unwrap(win_devices).val.bt_values_1) :
            \E e \in Range(export.val) :
                /\ Len(e.segs) = AdapterDepth
                /\ Address_get_linux_format(d.info.address)
                       = WinMac_get_linux_format(e.segs[AdapterDepth])

\* the keys below an adapter's key, in the order of the export
ExtendedEntries == SelectSeq(export.val, LAMBDA e : Len(e.segs) > AdapterDepth)

\* the value a key holds under a name
ValueOf(e, name) ==
    (CHOOSE f \in Range(e.fields) : f.name = <<"\"">> \o name \o <<"\"">>).value

\* C18: a key of more than 8 segments gives one device, whose adapter is the segment
\* before the last and whose address is the key's Address value, decoded with the
\* hex(b) rule; a key is taken as an adapter's key (8 segments), as a device's key
\* (more than 8), or as neither (fewer than 8), and never as both.
C18_ExtendedDeviceFromAddressField ==
    /\ export.ok =>
          \A e \in Range(export.val) :
              /\ is_adapter_entry(e) <=> Len(e.segs) = AdapterDepth
              /\ is_device_entry(e) <=> Len(e.segs) > AdapterDepth
              /\ ~(is_adapter_entry(e) /\ is_device_entry(e))
    /\ Assembled =>
          /\ Len(Unwrap(win_devices).val.bt_values_2) = Len(ExtendedEntries)
          /\ \A i \in 1..Len(ExtendedEntries) :
                LET d == Unwrap(win_devices).val.bt_values_2[i]
                    e == ExtendedEntries[i]
                IN /\ d.meta.adapter_mac = e.segs[Len(e.segs) - 1]
                   /\ d.info.address = ValueOf(e, Name_Address)
                   /\ d.info.ltk = ValueOf(e, Name_LTK)
                   /\ \E dev \in {DevX, DevY} :
                         /\ d.info.address = AddressValue(dev)
                         /\ Address_get_linux_format(d.info.address)
                                = Ok(ColonUpper(dev))
          /\ Len(AllDevices) = Cardinality(LegacyValues) + Len(ExtendedEntries)

\* the Keys key itself, which gives nothing, and a key of 10 segments whose last
\* segment is not the address it holds
C18_Witness ==
    /\ Assembled
    /\ \E e \in Range(export.val) : Len(e.segs) < AdapterDepth
    /\ Len(AllDevices) = 1
    /\ Len(ExtendedEntries) = 1
    /\ Len(ExtendedEntries[1].segs) = AdapterDepth + 2
    /\ AllDevices[1].meta.adapter_mac = HexLower(AdapterB)
    /\ Address_get_linux_format(AllDevices[1].info.address) = Ok(ColonUpper(DevY))
    /\ pos = 1

\* an adapter's key none of whose values is named by 12 hex digits
IsHousekeeping(e) ==
    /\ Len(e.segs) = AdapterDepth
    /\ \A f \in Range(e.fields) :
          ~(/\ Len(f.name) = 2 * AddrWidth + 2
            /\ \A i \in 2..(Len(f.name) - 1) : is_ascii_hexdigit(f.name[i]))

\* s without its i-th element
Without(s, i) == SubSeq(s, 1, i - 1) \o SubSeq(s, i + 1, Len(s))

\* C19: an adapter's key with no value named by 12 hex digits gives no device and no
\* error, and get_win_devices returns what it returns for the export without that key.
C19_HousekeepingKeyIgnored ==
    (export.ok /\ IsSome(win_devices)) =>
        \A i \in 1..Len(export.val) :
            IsHousekeeping(export.val[i]) =>
                /\ legacy_devices(export.val[i]) = Ok(<<>>)
                /\ Unwrap(win_devices) = get_win_devices_of(Ok(Without(export.val, i)))

\* adapter B's key with a value of its own, beside a key that gives a device
C19_Witness ==
    /\ Assembled
    /\ \E i \in 1..Len(export.val) :
          /\ IsHousekeeping(export.val[i])
          /\ export.val[i].fields # <<>>
    /\ Len(AllDevices) >= 1
    /\ pos = Len(AllDevices)

(***************************************************************************)
(* bt_device/win_bt_device.rs: BtDeviceBuilder, from the values of a key   *)
(* to a UniBtDevice                                                        *)
(***************************************************************************)
\* the names BtDevice51 does not hold as Options
BtDevice51_required ==
    {Name_AuthReq, Name_ERand, Name_LTK, Name_KeyLength, Name_EDIV, Name_Address}

\* serde_ini::to_string(&entries51) read back by serde_ini::from_str::<BtDevice51>,
\* then .expect("problem WinDevice struct")
BtDevice51_from_str(fields) ==
    IF \E name \in BtDevice51_required : ~IsSome(Lookup(fields, name)) THEN Panic
    ELSE Ok([auth_req |-> Unwrap(Lookup(fields, Name_AuthReq)),
             e_rand |-> Unwrap(Lookup(fields, Name_ERand)),
             ltk |-> Unwrap(Lookup(fields, Name_LTK)),
             key_length |-> Unwrap(Lookup(fields, Name_KeyLength)),
             e_div |-> Unwrap(Lookup(fields, Name_EDIV)),
             address_type |-> Lookup(fields, Name_AddressType),
             address |-> Unwrap(Lookup(fields, Name_Address)),
             master_irk_status |-> Lookup(fields, Name_MasterIRKStatus),
             irk |-> Lookup(fields, Name_IRK),
             csrk |-> Lookup(fields, Name_csrk)])

\* BtDeviceBuilder::new
WinBtDeviceBuilder_new ==
    [address |-> None, parent_address |-> None, ltk |-> None, entries51 |-> None]

\* build, parent_address
WinBuild_parent_address(self) ==
    IF IsSome(self.parent_address) THEN KeyAddress_into(Unwrap(self.parent_address))
    ELSE Panic

\* build, address: the one given, else the one of entries51
WinBuild_address(self) ==
    IF IsSome(self.address) THEN KeyAddress_into(Unwrap(self.address))
    ELSE IF IsSome(self.entries51) THEN Address_into(Unwrap(self.entries51).address)
    ELSE Panic

\* build, ltk: the one given, else the one of entries51
WinBuild_ltk(self) ==
    IF IsSome(self.ltk) THEN hex_to_bytes(Unwrap(self.ltk))
    ELSE IF IsSome(self.entries51) THEN hex_to_bytes(Unwrap(self.entries51).ltk)
    ELSE Panic

\* an Option of a conversion that may panic
MapSome(r) == IF r.ok THEN Ok(Some(r.val)) ELSE Panic

\* build, e_rand: Some whenever entries51 was given
WinBuild_e_rand(self) ==
    IF IsSome(self.entries51) THEN MapSome(hex_b_to_bytes(Unwrap(self.entries51).e_rand))
    ELSE Ok(None)

\* build, e_div: Some whenever entries51 was given
WinBuild_e_div(self, big_endian) ==
    IF IsSome(self.entries51)
    THEN MapSome(dword_to_bytes(Unwrap(self.entries51).e_div, big_endian))
    ELSE Ok(None)

\* build, irk
WinBuild_irk(self) ==
    IF IsSome(self.entries51) /\ IsSome(Unwrap(self.entries51).irk)
    THEN MapSome(hex_to_bytes(Unwrap(Unwrap(self.entries51).irk)))
    ELSE Ok(None)

\* build, csrk
WinBuild_csrk(self) ==
    IF IsSome(self.entries51) /\ IsSome(Unwrap(self.entries51).csrk)
    THEN MapSome(hex_to_bytes(Unwrap(Unwrap(self.entries51).csrk)))
    ELSE Ok(None)

\* BtDeviceBuilder::build
WinBtDeviceBuilder_build(self, big_endian) ==
    CHOOSE r \in {IF /\ parent_address.ok /\ address.ok /\ ltk.ok /\ e_rand.ok
                     /\ e_div.ok /\ irk.ok /\ csrk.ok
                  THEN Ok([address |-> address.val,
                           parent_address |-> parent_address.val,
                           ltk |-> ltk.val, e_rand |-> e_rand.val,
                           e_div |-> e_div.val, irk |-> irk.val, csrk |-> csrk.val])
                  ELSE Panic :
                     parent_address \in {WinBuild_parent_address(self)},
                     address \in {WinBuild_address(self)},
                     ltk \in {WinBuild_ltk(self)},
                     e_rand \in {WinBuild_e_rand(self)},
                     e_div \in {WinBuild_e_div(self, big_endian)},
                     irk \in {WinBuild_irk(self)},
                     csrk \in {WinBuild_csrk(self)}} : TRUE

\* the values a device's key may hold: any of the eight of FullFields, unquoted
Entries51Inputs ==
    {[kind |-> "Entries51",
      fields |-> unquote_keys(SelectSeq(FullFields(DevY, 8),
                                        LAMBDA f : f.name \in names)),
      parent_address |-> HexLower(AdapterA),
      address |-> HexLower(DevX),
      ltk |-> RawHex(HexPrefix, KeyBytes(4)),
      big_endian |-> be] :
        names \in SUBSET {f.name : f \in Range(FullFields(DevY, 8))}, be \in BOOLEAN}

InitAssemble ==
    /\ reg_value \in Entries51Inputs
    /\ decoded = Some([builder |-> Ok(WinBtDeviceBuilder_new), built |-> None])
    /\ IdleMerge
    /\ IdleRun

Building ==
    /\ reg_value.kind = "Entries51"
    /\ Unwrap(decoded).builder.ok
    /\ Unwrap(decoded).built = None

Builder == Unwrap(decoded).builder.val

\* BtDeviceBuilder::ltk
builder_ltk ==
    /\ Building
    /\ Builder.ltk = None
    /\ decoded' = Some([builder |-> Ok([Builder EXCEPT !.ltk = Some(reg_value.ltk)]),
                        built |-> None])
    /\ UNCHANGED <<reg_value, merge_vars, run_vars>>

\* BtDeviceBuilder::address
builder_address ==
    /\ Building
    /\ Builder.address = None
    /\ decoded' = Some([builder |->
                           Ok([Builder EXCEPT !.address = Some(reg_value.address)]),
                        built |-> None])
    /\ UNCHANGED <<reg_value, merge_vars, run_vars>>

\* BtDeviceBuilder::parent_address
builder_parent_address ==
    /\ Building
    /\ Builder.parent_address = None
    /\ decoded' = Some([builder |->
                           Ok([Builder EXCEPT
                                  !.parent_address = Some(reg_value.parent_address)]),
                        built |-> None])
    /\ UNCHANGED <<reg_value, merge_vars, run_vars>>

\* BtDeviceBuilder::entries51: a map that is no BtDevice51 is a panic
builder_entries51 ==
    /\ Building
    /\ Builder.entries51 = None
    /\ \E r \in {BtDevice51_from_str(reg_value.fields)} :
          decoded' = Some([builder |-> IF r.ok
                                       THEN Ok([Builder EXCEPT !.entries51 = Some(r.val)])
                                       ELSE Panic,
                           built |-> None])
    /\ UNCHANGED <<reg_value, merge_vars, run_vars>>

\* BtDeviceBuilder::build
builder_build ==
    /\ Building
    /\ decoded' = Some([builder |-> Unwrap(decoded).builder,
                        built |-> Some(WinBtDeviceBuilder_build(Builder,
                                                                reg_value.big_endian))])
    /\ UNCHANGED <<reg_value, merge_vars, run_vars>>

NextAssemble ==
    \/ builder_ltk
    \/ builder_address
    \/ builder_parent_address
    \/ builder_entries51
    \/ builder_build

SpecAssemble == InitAssemble /\ [][NextAssemble]_vars

\* the key holds an Address and an LTK and nothing else
OnlyAddressAndLtk ==
    /\ reg_value.kind = "Entries51"
    /\ {f.name : f \in Range(reg_value.fields)} = {Name_Address, Name_LTK}

\* C20: a device's key with only Address and LTK is taken by the builder, and the
\* device built from it has no e_rand, e_div, irk or csrk.
C20_AddressAndLtkAssembled ==
    OnlyAddressAndLtk =>
        /\ Unwrap(decoded).builder.ok
        /\ (IsSome(Unwrap(decoded).built) /\ IsSome(Builder.entries51)) =>
              /\ Unwrap(Unwrap(decoded).built).ok
              /\ Unwrap(Unwrap(decoded).built).val.e_rand = None
              /\ Unwrap(Unwrap(decoded).built).val.e_div = None
              /\ Unwrap(Unwrap(decoded).built).val.irk = None
              /\ Unwrap(Unwrap(decoded).built).val.csrk = None

\* what holds instead: entries51 takes only a key with AuthReq, ERand, LTK, KeyLength,
\* EDIV and Address, and a device built from it always has an e_rand and an e_div
C20_Entries51NeedsSixValues ==
    reg_value.kind = "Entries51" =>
        /\ Unwrap(decoded).builder.ok
              \/ \E name \in BtDevice51_required :
                    name \notin {f.name : f \in Range(reg_value.fields)}
        /\ (/\ Unwrap(decoded).builder.ok
            /\ IsSome(Builder.entries51)
            /\ IsSome(Unwrap(decoded).built)
            /\ Unwrap(Unwrap(decoded).built).ok) =>
              /\ BtDevice51_required \subseteq {f.name : f \in Range(reg_value.fields)}
              /\ IsSome(Unwrap(Unwrap(decoded).built).val.e_rand)
              /\ IsSome(Unwrap(Unwrap(decoded).built).val.e_div)

\* the key has a value under the name
HasValue(e, name) == \E f \in Range(e.fields) : f.name = <<"\"">> \o name \o <<"\"">>

\* C21: a device from a key of its own that holds a CSRK carries that CSRK, and when
\* its Linux record has a [LocalSignatureKey] the Key written there is the CSRK in
\* uppercase hex.
C21_CsrkReachesLocalSignatureKey ==
    Assembled =>
        \A k \in 1..Len(writes) :
            \A e \in Range(ExtendedEntries) :
                (/\ HasValue(e, Name_CSRK)
                 /\ extended_device(e) = Ok(Processed[k])
                 /\ IsSome(PrevInfo(k).LocalSignatureKey)) =>
                    /\ Processed[k].info.csrk = Some(ValueOf(e, Name_CSRK))
                    /\ IsSome(writes[k].info.LocalSignatureKey)
                    /\ Ok(Unwrap(writes[k].info.LocalSignatureKey).Key)
                           = Csrk_get_linux_format(ValueOf(e, Name_CSRK))

\* what happens instead: the CSRK of the key is not read, and [LocalSignatureKey] is
\* written as it was found
C21_CsrkIsDropped ==
    Assembled =>
        /\ \A d \in Range(AllDevices) : d.info.csrk = None
        /\ \A k \in 1..Len(writes) :
              writes[k].info.LocalSignatureKey = PrevInfo(k).LocalSignatureKey

\* C22: for a device that carries an ERand and an EDIV, update_linux_devices upon the
\* WinInfo and BtDeviceBuilder::build upon the UniBtDevice of the same registry
\* values turn the same Linux record into the same record, run for run.
C22_PipelinesAgree ==
    CarriesBoth =>
        \A i \in 1..Len(info_log) : i <= Len(bt_log) => info_log[i] = bt_log[i]

\* where the two do agree: every section but [LongTermKey], and Key and
\* Authenticated inside it
C22_PipelinesAgreeOutsideLongTermKey ==
    CarriesBoth =>
        \A i \in 1..Len(info_log) :
            i <= Len(bt_log) =>
                /\ \A n \in SectionNames \ {"LongTermKey"} : info_log[i][n] = bt_log[i][n]
                /\ IsSome(info_log[i].LongTermKey) <=> IsSome(bt_log[i].LongTermKey)
                /\ IsSome(info_log[i].LongTermKey) =>
                      /\ Unwrap(info_log[i].LongTermKey).Key
                             = Unwrap(bt_log[i].LongTermKey).Key
                      /\ Unwrap(info_log[i].LongTermKey).Authenticated
                             = Unwrap(bt_log[i].LongTermKey).Authenticated
                      /\ Unwrap(info_log[i].LongTermKey).EDiv
                             # Unwrap(bt_log[i].LongTermKey).EDiv
                      /\ Unwrap(info_log[i].LongTermKey).Rand
                             # Unwrap(bt_log[i].LongTermKey).Rand

====
